---- MODULE Spec2Model ----
(***************************************************************************)
(* State-machine model of dynamic_system_prompt_manager                    *)
(* (src/refactored_manager.py): the metrics sampler (MetricsCollector),    *)
(* the mtime-keyed document cache (PromptManager._read_base_prompt) and    *)
(* the publication loop (PromptManager.write_prompt / periodic_update).    *)
(*                                                                         *)
(* Scheduling is asyncio's: one event loop, so a coroutine runs from one   *)
(* await to the next without any other coroutine running in between.  A    *)
(* coroutine step is therefore enabled only while every other task is      *)
(* suspended at an await.  The wall clock and the file system belong to    *)
(* the environment and may change at any moment.                           *)
(***************************************************************************)
EXTENDS Integers, Sequences, FiniteSets, TLC

\* ------------------------------------------------------------------ bounds

\* Clock resolution: the clock counts 1/TicksPerSecond seconds, so that
\* int(now - start) really truncates.
TicksPerSecond == 2

\* The clock stops advancing at MaxClock ticks.
MaxClock == 22

\* At most MaxTasks sampler tasks are ever created by start().
MaxTasks == 2

\* ------------------------------------------------------- program constants

SAMPLE_PERIOD == 5

VARIABLES
    clock,       \* time.time(), in clock ticks
    start,       \* MetricsCollector._start
    latest,      \* MetricsCollector._latest
    lock,        \* MetricsCollector._lock is held
    tasks,       \* every sampler task created so far; _task is the last one
    now,         \* local variable `now` of the running _tick
    snap,        \* the copy handed out by the last evaluation of .latest
    last_pub,    \* history: the pair written by the last completed update
    snap_pub,    \* history: last_pub when snap was taken
    stopper,     \* position of the caller of stop()
    stop_target, \* the task that caller awaits (0: none)
    \* the static document on disk (the environment's)
    base_exists, \* base_path.exists()
    base_text,   \* the file's contents
    base_mtime,  \* base_path.stat().st_mtime
    \* PromptManager's document cache
    cached_base, \* PromptManager._cached_base
    cached_mtime,\* PromptManager._cached_mtime
    ret,         \* outcome of the last _read_base_prompt call
    n_reads,     \* read_text calls made by the last _read_base_prompt call
    call,        \* history: the file and the cache as that call found them
    mtime_reused,\* history: since the cache was filled, the file was given
                 \* the cached mtime with a text other than the cached one
    \* the publication loop
    updater,     \* position of the periodic_update task
    prompt_txt,  \* local variable prompt_txt of write_prompt
    out_file,    \* contents of out_path: <<>> (absent or empty) or <<artifact>>
    out_state,   \* out_path is "absent", "truncated" (opened for writing,
                 \* nothing written yet) or "complete" (holds an artifact)
    log_file,    \* contents of log_path: the entries appended so far
    ticks,       \* history: ticks begun
    out_tick,    \* history: the tick that last overwrote out_path
    log_tick,    \* history: the tick that last appended to log_path
    failure,     \* history: what the last tick failed on ("none" if nothing)
    prev_missing,\* history: the tick before this one found the document absent
    \* calls of the pure functions on their own
    arg_cfg,     \* the PromptConfig of the provider
    arg_metrics, \* the metrics passed in
    arg_base,    \* the static text passed in
    elems,       \* result of the last get_prompt_elements call
    rendered,    \* text of the last artifact composed, as its lines
    called,      \* which of the two has been called
    \* the event loop
    ready,       \* the loop's queue of handles ready to run, oldest first
    \* _read_base_prompt taken one file operation at a time
    rd_pc,       \* position of the call: "idle", "checked" (exists() was
                 \* true), "statted", "returned", "raised"
    rd_mtime,    \* local variable mtime of the call
    rd_torn      \* history: the entry was last filled with a text read when
                 \* the file no longer had the mtime stored with it

samplerVars == <<clock, start, latest, lock, tasks, now, snap, last_pub, snap_pub,
                 stopper, stop_target>>

fsVars == <<base_exists, base_text, base_mtime>>

cacheVars == <<cached_base, cached_mtime, ret, n_reads, call, mtime_reused>>

pubVars == <<updater, prompt_txt, out_file, out_state, log_file, ticks,
             out_tick, log_tick, failure, prev_missing>>

pureVars == <<arg_cfg, arg_metrics, arg_base, elems, rendered, called>>

loopVars == <<ready>>

readVars == <<rd_pc, rd_mtime, rd_torn>>

vars == <<samplerVars, fsVars, cacheVars, pubVars, pureVars, loopVars, readVars>>

\* ---------------------------------------------------------------- helpers

Period == SAMPLE_PERIOD * TicksPerSecond

\* A mutant of PyInt: round() instead of int().
PyRound(x, d) == (2 * x + d) \div (2 * d)

\* Python's int() on a float: truncation toward zero.
PyInt(x, d) == IF x >= 0 THEN x \div d ELSE -((-x) \div d)

\* A mutant of ConvLen: the counter wrapping around.
ConvLenWrapped(t) == PyInt(t - start, TicksPerSecond) % (2 * SAMPLE_PERIOD)

\* int(now - self._start)
ConvLen(t) == PyInt(t - start, TicksPerSecond)

Snapshot(t, n) == [timestamp |-> t, conversation_length |-> n]

\* ------------------------------------------------------- MetricsCollector

\* A mutant of Suspended: as if the update awaited between its two writes.
SuspendedMidUpdate(pc) == pc \in {"new", "sleep", "cancel_req", "done", "ts_written"}

\* The task is not running: it is not started, finished, or parked at its
\* only await, the sleep.
Suspended(pc) == pc \in {"new", "sleep", "cancel_req", "done"}

AllSuspended == \A i \in 1..Len(tasks) : Suspended(tasks[i].pc)

\* A mutant of UpdaterSuspended: as if write_prompt awaited between its writes.
UpdaterSuspendedMidTick(pc) == pc \in {"new", "sleep", "cancelled", "crashed", "wrote"}

\* The updater task is not running: not started, finished, or parked at
\* `await asyncio.sleep(interval)`, the only await of periodic_update.
UpdaterSuspended(pc) == pc \in {"new", "sleep", "cancelled", "crashed"}

\* No coroutine is running, so the event loop may run another one.
LoopIdle == AllSuspended /\ UpdaterSuspended(updater)

\* asyncio.Task.done()
\* A mutant of Done: a task counted as finished once cancel() was called.
DoneOrCancelling(pc) == pc \in {"done", "cancel_req"}

Done(pc) == pc = "done"

\* self._task (0 stands for None)
CurTask == Len(tasks)

NoLiveTask == \A i \in 1..Len(tasks) : Done(tasks[i].pc)

InitSampler ==
    /\ start \in 0..(TicksPerSecond - 1)
    /\ clock = start
    /\ latest = Snapshot(start, 0)
    /\ lock = FALSE
    /\ tasks = <<>>
    /\ now = start
    /\ snap = Snapshot(start, 0)
    /\ last_pub = Snapshot(start, 0)
    /\ snap_pub = Snapshot(start, 0)
    /\ stopper = "idle"
    /\ stop_target = 0

\* The environment: time passes.
ClockAdvance ==
    /\ clock < MaxClock
    /\ clock' = clock + 1
    /\ UNCHANGED <<start, latest, lock, tasks, now, snap, last_pub, snap_pub,
                   stopper, stop_target,
                   fsVars, cacheVars, pubVars>>
    /\ UNCHANGED <<pureVars, loopVars, readVars>>

\* MetricsCollector.latest, evaluated by any coroutine (a request handler,
\* or PromptManager._build_prompt).
ReadLatest ==
    /\ LoopIdle
    /\ snap' = latest
    /\ snap_pub' = last_pub
    /\ UNCHANGED <<clock, start, latest, lock, tasks, now, last_pub,
                   stopper, stop_target,
                   fsVars, cacheVars, pubVars>>
    /\ UNCHANGED <<pureVars, loopVars, readVars>>

\* MetricsCollector.start()
Start ==
    /\ LoopIdle
    /\ IF CurTask = 0 \/ Done(tasks[CurTask].pc)
         THEN /\ Len(tasks) < MaxTasks
              /\ tasks' = Append(tasks, [pc |-> "new", wake |-> 0])
         ELSE UNCHANGED tasks
    /\ UNCHANGED <<clock, start, latest, lock, now, snap, last_pub, snap_pub,
                   stopper, stop_target,
                   fsVars, cacheVars, pubVars>>
    /\ UNCHANGED <<pureVars, loopVars, readVars>>

\* First step of _tick: runs up to `await asyncio.sleep(_SAMPLE_PERIOD)`.
TaskBeginStep(i) ==
    /\ LoopIdle
    /\ tasks[i].pc = "new"
    /\ tasks' = [tasks EXCEPT ![i] = [pc |-> "sleep", wake |-> clock + Period]]
    /\ UNCHANGED <<clock, start, latest, lock, now, snap, last_pub, snap_pub,
                   stopper, stop_target,
                   fsVars, cacheVars, pubVars>>
    /\ UNCHANGED <<pureVars, readVars>>

TaskBegin(i) == TaskBeginStep(i) /\ UNCHANGED loopVars

\* The sleep is over: `async with self._lock` (the lock is free, so acquire
\* does not suspend) and `now = time.time()`.
SamplerWakeStep(i) ==
    /\ LoopIdle
    /\ tasks[i].pc = "sleep"
    /\ clock >= tasks[i].wake
    /\ ~lock
    /\ lock' = TRUE
    /\ now' = clock
    /\ tasks' = [tasks EXCEPT ![i].pc = "locked"]
    /\ UNCHANGED <<clock, start, latest, snap, last_pub, snap_pub, stopper, stop_target,
                   fsVars, cacheVars, pubVars>>
    /\ UNCHANGED <<pureVars, readVars>>

SamplerWake(i) == SamplerWakeStep(i) /\ UNCHANGED loopVars

\* self._latest.update(timestamp=now, ...): the first key written.
WriteTimestamp(i) ==
    /\ tasks[i].pc = "locked"
    /\ latest' = [latest EXCEPT !.timestamp = now]
    /\ tasks' = [tasks EXCEPT ![i].pc = "ts_written"]
    /\ UNCHANGED <<clock, start, lock, now, snap, last_pub, snap_pub, stopper, stop_target,
                   fsVars, cacheVars, pubVars>>
    /\ UNCHANGED <<pureVars, loopVars, readVars>>

\* ... conversation_length=int(now - self._start): the second key written;
\* then the lock is released and the loop is back at its sleep.
WriteLength(i) ==
    /\ tasks[i].pc = "ts_written"
    /\ latest' = [latest EXCEPT !.conversation_length = ConvLen(now)]
    /\ last_pub' = Snapshot(now, ConvLen(now))
    /\ lock' = FALSE
    /\ tasks' = [tasks EXCEPT ![i] = [pc |-> "sleep", wake |-> clock + Period]]
    /\ UNCHANGED <<clock, start, now, snap, snap_pub, stopper, stop_target,
                   fsVars, cacheVars, pubVars>>
    /\ UNCHANGED <<pureVars, loopVars, readVars>>

\* A mutant of SuppressedExceptions: stop() without contextlib.suppress.
NothingSuppressed == {}

\* with contextlib.suppress(asyncio.CancelledError)
SuppressedExceptions == {"CancelledError"}

\* MetricsCollector.stop() up to its await: cancel the task and wait for it;
\* with no task, or a finished one, stop() returns at once.
StopCall ==
    /\ LoopIdle
    /\ stopper # "awaiting"
    /\ IF CurTask # 0 /\ ~Done(tasks[CurTask].pc)
         THEN /\ tasks' = [tasks EXCEPT ![CurTask] = [pc |-> "cancel_req", wake |-> 0]]
              /\ stopper' = "awaiting"
              /\ stop_target' = CurTask
         ELSE /\ stopper' = "returned"
              /\ stop_target' = 0
              /\ UNCHANGED tasks
    /\ UNCHANGED <<clock, start, latest, lock, now, snap, last_pub, snap_pub,
                   fsVars, cacheVars, pubVars>>
    /\ UNCHANGED <<pureVars, loopVars, readVars>>

\* The cancelled task resumes with CancelledError raised at its await (or,
\* never started, at its first step), logs, re-raises and is finished.
TaskCancelled(i) ==
    /\ LoopIdle
    /\ tasks[i].pc = "cancel_req"
    /\ tasks' = [tasks EXCEPT ![i].pc = "done"]
    /\ UNCHANGED <<clock, start, latest, lock, now, snap, last_pub, snap_pub,
                   stopper, stop_target,
                   fsVars, cacheVars, pubVars>>
    /\ UNCHANGED <<pureVars, loopVars, readVars>>

\* `await self._task` raises the task's CancelledError in stop().
StopReturn ==
    /\ LoopIdle
    /\ stopper = "awaiting"
    /\ Done(tasks[stop_target].pc)
    /\ stopper' = IF "CancelledError" \in SuppressedExceptions
                    THEN "returned" ELSE "raised"
    /\ UNCHANGED <<clock, start, latest, lock, tasks, now, snap, last_pub, snap_pub,
                   stop_target,
                   fsVars, cacheVars, pubVars>>
    /\ UNCHANGED <<pureVars, loopVars, readVars>>


\* ------------------------------------------ the static document (on disk)

\* Texts the document may hold.
Texts == {"v1", "v2"}

\* Modification times the document may carry.
MaxMtime == 2

Mtimes == 1..MaxMtime

\* _cached_mtime = None
NoneMtime == 0

InitFile ==
    /\ base_exists \in BOOLEAN
    /\ base_text = (IF base_exists THEN "v1" ELSE "")
    /\ base_mtime = (IF base_exists THEN 1 ELSE NoneMtime)

\* Another process creates or rewrites the document.  The mtime is whatever
\* the writer leaves: a new one, or (coarse timestamps, cp -p, os.utime) one
\* the file already had.
ExtWrite(text, mtime) ==
    /\ ~(base_exists /\ base_text = text /\ base_mtime = mtime)
    /\ base_exists' = TRUE
    /\ base_text' = text
    /\ base_mtime' = mtime
    /\ mtime_reused' = (mtime_reused \/
                          (mtime = cached_mtime /\ text # cached_base))
    /\ UNCHANGED <<cached_base, cached_mtime, ret, n_reads, call>>
    /\ UNCHANGED <<samplerVars, pubVars>>
    /\ UNCHANGED <<pureVars, loopVars, readVars>>

\* Another process deletes the document.
ExtDelete ==
    /\ base_exists
    /\ base_exists' = FALSE
    /\ base_text' = ""
    /\ base_mtime' = NoneMtime
    /\ UNCHANGED <<samplerVars, cacheVars, pubVars>>
    /\ UNCHANGED <<pureVars, loopVars, readVars>>

\* ------------------------------------- PromptManager._read_base_prompt

InitCache ==
    /\ cached_base = ""
    /\ cached_mtime = NoneMtime
    /\ ret = [kind |-> "none", text |-> ""]
    /\ n_reads = 0
    /\ call = [made |-> FALSE, exists |-> FALSE, text |-> "", mtime |-> NoneMtime,
               cached_base |-> "", cached_mtime |-> NoneMtime, reused |-> FALSE]
    /\ mtime_reused = FALSE

Returned(text) == [kind |-> "returned", text |-> text]

Raised == [kind |-> "raised", text |-> ""]

\* A mutant of MissingText: a missing document replaced by a stock text.
MissingStockText(cached) == "v1"

\* A mutant of MissingText: a missing document served from the cache.
MissingKeepsLastGood(cached) == cached

\* `return ""` when the path does not exist.
MissingText(cached) == ""

\* A mutant of CacheStale: the document is read once and never again.
StaleOnlyWhenEmpty(mtime, cached) == cached = NoneMtime

\* A mutant of CacheStale: the document is re-read on every call.
StaleAlways(mtime, cached) == TRUE

\* `if mtime != self._cached_mtime`
CacheStale(mtime, cached) == mtime # cached

\* The cache entry: (_cached_base, _cached_mtime).
Entry(text, mtime) == [text |-> text, mtime |-> mtime]

\* A mutant of EntryOnMissing: the entry reset when the document is gone.
EntryCleared(entry) == Entry("", NoneMtime)

\* The entry after the `return ""` of the missing-document branch, which
\* assigns neither field.
EntryOnMissing(entry) == entry

\* A mutant of EntryOnReadError: _cached_mtime assigned before read_text.
EntryHalfUpdated(entry, mtime) == Entry(entry.text, mtime)

\* The entry after read_text() raised: the assignment of _cached_base never
\* completes and the one of _cached_mtime is not reached.
EntryOnReadError(entry, mtime) == entry

\* Where a call may fail: nowhere, in stat(), or in read_text().
Faults == {"none", "stat", "read"}

\* One call of _read_base_prompt, the file not changing while it runs.
\* fault = "stat": base_path.stat() raises; fault = "read": read_text()
\* raises (permissions, undecodable bytes, I/O error).  An exception leaves
\* the method before either cache field is assigned.
ReadBasePrompt(fault) ==
    /\ call' = [made |-> TRUE, exists |-> base_exists, text |-> base_text,
                mtime |-> base_mtime, cached_base |-> cached_base,
                cached_mtime |-> cached_mtime, reused |-> mtime_reused]
    /\ IF ~base_exists
         THEN /\ fault = "none"
              /\ ret' = Returned(MissingText(cached_base))
              /\ n_reads' = 0
              /\ LET entry == EntryOnMissing(Entry(cached_base, cached_mtime))
                 IN  /\ cached_base' = entry.text
                     /\ cached_mtime' = entry.mtime
              /\ UNCHANGED mtime_reused
         ELSE IF fault = "stat"
         THEN /\ ret' = Raised
              /\ n_reads' = 0
              /\ UNCHANGED <<cached_base, cached_mtime, mtime_reused>>
         ELSE IF CacheStale(base_mtime, cached_mtime)
         THEN IF fault = "read"
                THEN /\ ret' = Raised
                     /\ n_reads' = 1
                     /\ LET entry == EntryOnReadError(
                                         Entry(cached_base, cached_mtime),
                                         base_mtime)
                        IN  /\ cached_base' = entry.text
                            /\ cached_mtime' = entry.mtime
                     /\ UNCHANGED mtime_reused
                ELSE /\ cached_base' = base_text
                     /\ cached_mtime' = base_mtime
                     /\ mtime_reused' = FALSE
                     /\ n_reads' = 1
                     /\ ret' = Returned(base_text)
         ELSE /\ fault = "none"
              /\ ret' = Returned(cached_base)
              /\ n_reads' = 0
              /\ UNCHANGED <<cached_base, cached_mtime, mtime_reused>>

\* _read_base_prompt called on its own.
CacheRead ==
    /\ LoopIdle
    /\ \E fault \in Faults : ReadBasePrompt(fault)
    /\ UNCHANGED <<samplerVars, fsVars, pubVars>>
    /\ UNCHANGED <<pureVars, loopVars, readVars>>

\* ---------------------------------------------- PromptElementProvider

LongThreshold == 50

\* PromptConfig as built in _main (the texts abbreviated).
Cfg == [long_convo_addition |-> "long", short_convo_addition |-> "short"]

\* A mutant of GetPromptElements: the threshold itself counted as long.
GetPromptElementsInclusive(cfg, metrics) ==
    LET element == IF metrics.conversation_length >= LongThreshold
                     THEN cfg.long_convo_addition
                     ELSE cfg.short_convo_addition
    IN  IF element # "" THEN <<element>> ELSE <<>>

\* PromptElementProvider.get_prompt_elements
GetPromptElements(cfg, metrics) ==
    LET element == IF metrics.conversation_length > LongThreshold
                     THEN cfg.long_convo_addition
                     ELSE cfg.short_convo_addition
    IN  IF element # "" THEN <<element>> ELSE <<>>

\* "\n".join(elements), for the lists get_prompt_elements returns.
Join(elements) == IF elements = <<>> THEN "" ELSE elements[1]

\* time.strftime("%Y-%m-%d %H:%M:%S", time.localtime(t)): whole seconds.
FormatTime(t) == t \div TicksPerSecond

\* ------------------------------------------------------- PromptManager

SEP_LEN == 80

\* The artifact of _build_prompt for a provider configured with cfg: the
\* four values the f-string interpolates.
ComposeWith(cfg, metrics, base) ==
    [timestamp |-> FormatTime(metrics.timestamp),
     dynamic   |-> Join(GetPromptElements(cfg, metrics)),
     length    |-> metrics.conversation_length,
     base      |-> base]

\* The artifact of _build_prompt in the program _main wires.
Compose(metrics, base) == ComposeWith(Cfg, metrics, base)

\* A line of text: a fixed label followed by a number, or free text.
TextLine(s) == [label |-> "", num |-> 0, text |-> s]

BlankLine == TextLine("")

TimestampLine(t) == [label |-> "Timestamp: ", num |-> t, text |-> ""]

LengthLine(n) == [label |-> "Length of Conversation: ", num |-> n, text |-> ""]

\* text.split("\n") for the one-line texts of the model; the empty text is
\* one empty line.
Lines(text) == <<TextLine(text)>>

\* A mutant of Render: the sections joined by "\n" instead of "\n\n".
RenderNoBlank(a) ==
    <<TimestampLine(a.timestamp)>> \o Lines(a.dynamic)
        \o <<LengthLine(a.length)>> \o Lines(a.base)

\* The text of the f-string of _build_prompt, line by line:
\*   "Timestamp: {t}\n\n{dynamic}\n\nLength of Conversation: {n}\n\n{base}"
Render(a) ==
    <<TimestampLine(a.timestamp), BlankLine>> \o Lines(a.dynamic)
        \o <<BlankLine, LengthLine(a.length), BlankLine>> \o Lines(a.base)

NoPrompt == [timestamp |-> 0, dynamic |-> "", length |-> 0, base |-> ""]

\* What a failed append may leave behind: the start of an entry.
PartialEntry(txt) == [text |-> txt, dashes |-> 0]

\* A mutant of LogEntry: the log given something other than the text
\* written to out_path.
LogEntryBlank(txt) == [text |-> NoPrompt, dashes |-> SEP_LEN]

\* prompt_txt + "\n" + "-" * 80 + "\n"
LogEntry(txt) == [text |-> txt, dashes |-> SEP_LEN]

\* A mutant of LogAppend: the log opened with "w" instead of "a".
LogOverwrite(log, entry) == <<entry>>

\* open(log_path, "a").write(entry)
LogAppend(log, entry) == Append(log, entry)

\* Publication ticks the model lets the loop begin.
MaxTicks == 3

InitPub ==
    /\ updater = "new"
    /\ prompt_txt = NoPrompt
    /\ out_file = <<>>
    /\ out_state = "absent"
    /\ log_file = <<>>
    /\ ticks = 0
    /\ out_tick = 0
    /\ log_tick = 0
    /\ failure = "none"
    /\ prev_missing = FALSE

\* A tick begins (first step of the task, or the sleep is over) and
\* write_prompt calls _build_prompt: the snapshot is read, the fragment
\* chosen, the document read through the cache.
BuildPromptStep ==
    /\ LoopIdle
    /\ updater \in {"new", "sleep"}
    /\ ticks < MaxTicks
    /\ ticks' = ticks + 1
    /\ ReadBasePrompt("none")
    /\ prompt_txt' = Compose(latest, ret'.text)
    /\ updater' = "built"
    /\ failure' = "none"
    /\ prev_missing' = (call.made /\ ~call.exists)
    /\ UNCHANGED <<out_file, out_state, log_file, out_tick, log_tick>>
    /\ UNCHANGED <<samplerVars, fsVars>>
    /\ UNCHANGED <<pureVars, readVars>>

BuildPrompt == BuildPromptStep /\ UNCHANGED loopVars

\* _read_base_prompt raises inside _build_prompt: nothing in write_prompt
\* or periodic_update catches it (only CancelledError is handled), so the
\* exception ends the task.
BuildPromptRaisesStep ==
    /\ LoopIdle
    /\ updater \in {"new", "sleep"}
    /\ ticks < MaxTicks
    /\ ticks' = ticks + 1
    /\ \E fault \in Faults \ {"none"} : ReadBasePrompt(fault)
    /\ updater' = "crashed"
    /\ failure' = "read"
    /\ prev_missing' = (call.made /\ ~call.exists)
    /\ UNCHANGED <<prompt_txt, out_file, out_state, log_file, out_tick,
                   log_tick>>
    /\ UNCHANGED <<samplerVars, fsVars>>
    /\ UNCHANGED <<pureVars, readVars>>

BuildPromptRaises == BuildPromptRaisesStep /\ UNCHANGED loopVars

\* self.out_path.write_text(prompt_txt), first half: Path.write_text opens
\* the file with mode "w", which creates it or cuts it to length zero.
OpenOut ==
    /\ updater = "built"
    /\ out_file' = <<>>
    /\ out_state' = "truncated"
    /\ updater' = "opened"
    /\ UNCHANGED <<prompt_txt, log_file, ticks, out_tick, log_tick, failure,
                   prev_missing>>
    /\ UNCHANGED <<samplerVars, fsVars, cacheVars>>
    /\ UNCHANGED <<pureVars, loopVars, readVars>>

\* self.out_path.write_text(prompt_txt), second half: the text is written
\* and the file closed.
WriteOut ==
    /\ updater = "opened"
    /\ out_file' = <<prompt_txt>>
    /\ out_state' = "complete"
    /\ out_tick' = ticks
    /\ updater' = "wrote"
    /\ UNCHANGED <<prompt_txt, log_file, ticks, log_tick, failure,
                   prev_missing>>
    /\ UNCHANGED <<samplerVars, fsVars, cacheVars>>
    /\ UNCHANGED <<pureVars, loopVars, readVars>>

\* write_text raises: the file is untouched (open failed) or left truncated
\* (the write failed); the exception ends the task before the log is opened.
WriteOutFails ==
    /\ updater \in {"built", "opened"}
    /\ updater' = "crashed"
    /\ failure' = "out"
    /\ UNCHANGED <<prompt_txt, out_file, out_state, log_file, ticks, out_tick,
                   log_tick, prev_missing>>
    /\ UNCHANGED <<samplerVars, fsVars, cacheVars>>
    /\ UNCHANGED <<pureVars, loopVars, readVars>>

\* The append to the log; write_prompt returns and periodic_update reaches
\* `await asyncio.sleep(interval)`.
AppendLog ==
    /\ updater = "wrote"
    /\ log_file' = LogAppend(log_file, LogEntry(prompt_txt))
    /\ log_tick' = ticks
    /\ updater' = "sleep"
    /\ UNCHANGED <<prompt_txt, out_file, out_state, ticks, out_tick, failure,
                   prev_missing>>
    /\ UNCHANGED <<samplerVars, fsVars, cacheVars>>
    /\ UNCHANGED <<pureVars, loopVars, readVars>>

\* The append raises: nothing was written (open failed) or only the start
\* of the entry; the exception ends the task.
AppendLogFails ==
    /\ updater = "wrote"
    /\ log_file' \in {log_file, Append(log_file, PartialEntry(prompt_txt))}
    /\ updater' = "crashed"
    /\ failure' = "log"
    /\ UNCHANGED <<prompt_txt, out_file, out_state, ticks, out_tick, log_tick,
                   prev_missing>>
    /\ UNCHANGED <<samplerVars, fsVars, cacheVars>>
    /\ UNCHANGED <<pureVars, loopVars, readVars>>

\* The updater task is cancelled from outside (shutdown): CancelledError is
\* raised at the await the task is parked at, logged and re-raised.
CancelUpdater ==
    /\ LoopIdle
    /\ updater \notin {"cancelled", "crashed"}
    /\ updater' = "cancelled"
    /\ UNCHANGED <<prompt_txt, out_file, out_state, log_file, ticks, out_tick,
                   log_tick, failure, prev_missing>>
    /\ UNCHANGED <<samplerVars, fsVars, cacheVars>>
    /\ UNCHANGED <<pureVars, loopVars, readVars>>

\* ---------------------------------------------------------- specifications

\* Nothing is queued on the event loop, and _read_base_prompt is not
\* followed one file operation at a time.
InitNoQueue ==
    /\ ready = <<>>
    /\ rd_pc = "idle"
    /\ rd_mtime = NoneMtime
    /\ rd_torn = FALSE

\* Nobody calls the pure functions on their own.
InitNoCalls ==
    /\ arg_cfg = Cfg
    /\ arg_metrics = Snapshot(0, 0)
    /\ arg_base = ""
    /\ elems = <<>>
    /\ rendered = <<>>
    /\ called = [select |-> FALSE, compose |-> FALSE]

\* The sampler on its own: start(), stop(), the _tick loop and readers.
InitQuietFile ==
    /\ base_exists = TRUE
    /\ base_text = "v1"
    /\ base_mtime = 1

Init ==
    /\ InitSampler
    /\ InitQuietFile
    /\ InitCache
    /\ InitPub
    /\ InitNoCalls
    /\ InitNoQueue

Next ==
    \/ ClockAdvance
    \/ ReadLatest
    \/ Start
    \/ StopCall
    \/ StopReturn
    \/ \E i \in 1..Len(tasks) :
         \/ TaskBegin(i)
         \/ SamplerWake(i)
         \/ WriteTimestamp(i)
         \/ WriteLength(i)
         \/ TaskCancelled(i)

Spec == Init /\ [][Next]_vars

\* The document cache on its own: _read_base_prompt called again and again
\* while another process rewrites, deletes and re-creates the document.
InitIdleSampler ==
    /\ InitSampler
    /\ start = 0

InitCacheSpec ==
    /\ InitIdleSampler
    /\ InitFile
    /\ InitCache
    /\ InitPub
    /\ InitNoCalls
    /\ InitNoQueue

NextCache ==
    \/ CacheRead
    \/ \E text \in Texts, mtime \in Mtimes : ExtWrite(text, mtime)
    \/ ExtDelete

SpecCache == InitCacheSpec /\ [][NextCache]_vars

\* The publication loop with the document changing under it and every file
\* operation able to fail; the sampler is not started.
NextPub ==
    \/ BuildPrompt
    \/ BuildPromptRaises
    \/ OpenOut
    \/ WriteOut
    \/ WriteOutFails
    \/ AppendLog
    \/ AppendLogFails
    \/ CancelUpdater
    \/ \E text \in Texts, mtime \in Mtimes : ExtWrite(text, mtime)
    \/ ExtDelete

SpecPub == InitCacheSpec /\ [][NextPub]_vars

\* The two pure functions called on their own, on a provider configured
\* with any pair of fragments (the empty one included), counters on both
\* sides of the threshold and any static text.
Margin == 2

Fragments == {"", "long", "short"}

Counters == {0} \cup ((LongThreshold - Margin)..(LongThreshold + Margin))

Stamps == {0, 1, TicksPerSecond, MaxClock}

InitPureArgs ==
    /\ arg_cfg \in [long_convo_addition : Fragments,
                    short_convo_addition : Fragments]
    /\ arg_metrics \in {Snapshot(t, n) : t \in Stamps, n \in Counters}
    /\ arg_base \in Texts \cup {""}
    /\ elems = <<>>
    /\ rendered = <<>>
    /\ called = [select |-> FALSE, compose |-> FALSE]

\* provider.get_prompt_elements(metrics)
SelectCall ==
    /\ ~called.select
    /\ elems' = GetPromptElements(arg_cfg, arg_metrics)
    /\ called' = [called EXCEPT !.select = TRUE]
    /\ UNCHANGED <<arg_cfg, arg_metrics, arg_base, rendered>>
    /\ UNCHANGED <<samplerVars, fsVars, cacheVars, pubVars, loopVars, readVars>>

\* The f-string of _build_prompt evaluated on metrics and base.
ComposeCall ==
    /\ ~called.compose
    /\ rendered' = Render(ComposeWith(arg_cfg, arg_metrics, arg_base))
    /\ called' = [called EXCEPT !.compose = TRUE]
    /\ UNCHANGED <<arg_cfg, arg_metrics, arg_base, elems>>
    /\ UNCHANGED <<samplerVars, fsVars, cacheVars, pubVars, loopVars, readVars>>

InitPure ==
    /\ InitIdleSampler
    /\ InitQuietFile
    /\ InitCache
    /\ InitPub
    /\ InitPureArgs
    /\ InitNoQueue

NextPure == SelectCall \/ ComposeCall

SpecPure == InitPure /\ [][NextPure]_vars

\* The program as _main starts it: the collector is created and started,
\* the updater task is created, and the event loop runs the two tasks.
\* create_task puts a task's first step at the end of the loop's queue; a
\* sleeping task's next step is put there when its timer has expired; the
\* loop runs the handle at the head of the queue, one at a time.

\* A mutant of TimerExpired: an expired timer run ahead of what is queued.
TimerPreempts(q, h) == <<h>> \o q

\* The loop moves the handle of an expired timer to the end of its queue.
TimerExpired(q, h) == Append(q, h)

Queued(h) == \E k \in 1..Len(ready) : ready[k] = h

AtHead(h) == ready # <<>> /\ Head(ready) = h

\* _main up to `await updater`: collector.start() and
\* asyncio.create_task(mgr.periodic_update(10.0)), in this order.
MainStart ==
    /\ tasks = <<>>
    /\ updater = "new"
    /\ ready = <<>>
    /\ tasks' = <<[pc |-> "new", wake |-> 0]>>
    /\ ready' = <<"sampler", "updater">>
    /\ UNCHANGED <<clock, start, latest, lock, now, snap, last_pub, snap_pub,
                   stopper, stop_target>>
    /\ UNCHANGED <<fsVars, cacheVars, pubVars, pureVars, readVars>>

\* The loop runs the first step of _tick.
RunSamplerBegin ==
    /\ AtHead("sampler")
    /\ TaskBeginStep(1)
    /\ ready' = Tail(ready)

\* The timer of `await asyncio.sleep(_SAMPLE_PERIOD)` has expired.
SamplerTimer ==
    /\ LoopIdle
    /\ tasks # <<>>
    /\ tasks[1].pc = "sleep"
    /\ clock >= tasks[1].wake
    /\ ~Queued("sampler")
    /\ ready' = TimerExpired(ready, "sampler")
    /\ UNCHANGED <<samplerVars, fsVars, cacheVars, pubVars, pureVars, readVars>>

\* The loop resumes _tick after its sleep.
RunSamplerWake ==
    /\ AtHead("sampler")
    /\ SamplerWakeStep(1)
    /\ ready' = Tail(ready)

\* The timer of `await asyncio.sleep(interval)` has expired.
UpdaterTimer ==
    /\ LoopIdle
    /\ updater = "sleep"
    /\ ticks < MaxTicks
    /\ ~Queued("updater")
    /\ ready' = TimerExpired(ready, "updater")
    /\ UNCHANGED <<samplerVars, fsVars, cacheVars, pubVars, pureVars, readVars>>

\* The loop runs periodic_update: its first step, or after its sleep.
RunBuildPrompt ==
    /\ AtHead("updater")
    /\ BuildPromptStep
    /\ ready' = Tail(ready)

RunBuildPromptRaises ==
    /\ AtHead("updater")
    /\ BuildPromptRaisesStep
    /\ ready' = Tail(ready)

InitMain ==
    /\ InitSampler
    /\ InitQuietFile
    /\ InitCache
    /\ InitPub
    /\ InitNoCalls
    /\ InitNoQueue

NextMain ==
    \/ MainStart
    \/ ClockAdvance
    \/ RunSamplerBegin
    \/ SamplerTimer
    \/ RunSamplerWake
    \/ \E i \in 1..Len(tasks) : WriteTimestamp(i) \/ WriteLength(i)
    \/ UpdaterTimer
    \/ RunBuildPrompt
    \/ RunBuildPromptRaises
    \/ OpenOut
    \/ WriteOut
    \/ WriteOutFails
    \/ AppendLog
    \/ AppendLogFails

SpecMain == InitMain /\ [][NextMain]_vars

\* _read_base_prompt one file operation at a time, another process
\* rewriting, deleting and re-creating the document between the operations.
\* No operation fails for any other reason than the file being gone.

\* `if not self.base_path.exists(): return ""`
ReadExists ==
    /\ rd_pc \in {"idle", "returned", "raised"}
    /\ IF base_exists
         THEN /\ rd_pc' = "checked"
              /\ UNCHANGED ret
         ELSE /\ rd_pc' = "returned"
              /\ ret' = Returned(MissingText(cached_base))
    /\ UNCHANGED <<rd_mtime, rd_torn>>
    /\ UNCHANGED <<cached_base, cached_mtime, n_reads, call, mtime_reused>>
    /\ UNCHANGED <<samplerVars, fsVars, pubVars, pureVars, loopVars>>

\* `mtime = self.base_path.stat().st_mtime` and the comparison with
\* _cached_mtime; stat() of a path that is gone raises FileNotFoundError.
ReadStat ==
    /\ rd_pc = "checked"
    /\ IF ~base_exists
         THEN /\ rd_pc' = "raised"
              /\ ret' = Raised
              /\ UNCHANGED rd_mtime
         ELSE /\ rd_mtime' = base_mtime
              /\ IF CacheStale(base_mtime, cached_mtime)
                   THEN /\ rd_pc' = "statted"
                        /\ UNCHANGED ret
                   ELSE /\ rd_pc' = "returned"
                        /\ ret' = Returned(cached_base)
    /\ UNCHANGED rd_torn
    /\ UNCHANGED <<cached_base, cached_mtime, n_reads, call, mtime_reused>>
    /\ UNCHANGED <<samplerVars, fsVars, pubVars, pureVars, loopVars>>

\* `self._cached_base = self.base_path.read_text(...)`, then
\* `self._cached_mtime = mtime` and `return self._cached_base`; read_text()
\* of a path that is gone raises FileNotFoundError.
ReadText ==
    /\ rd_pc = "statted"
    /\ IF ~base_exists
         THEN /\ rd_pc' = "raised"
              /\ ret' = Raised
              /\ UNCHANGED <<cached_base, cached_mtime, rd_torn, mtime_reused>>
         ELSE /\ cached_base' = base_text
              /\ cached_mtime' = rd_mtime
              /\ rd_torn' = (rd_mtime # base_mtime)
              /\ mtime_reused' = FALSE
              /\ rd_pc' = "returned"
              /\ ret' = Returned(base_text)
    /\ UNCHANGED <<rd_mtime, n_reads, call>>
    /\ UNCHANGED <<samplerVars, fsVars, pubVars, pureVars, loopVars>>

NextRace ==
    \/ ReadExists
    \/ ReadStat
    \/ ReadText
    \/ \E text \in Texts, mtime \in Mtimes : ExtWrite(text, mtime)
    \/ ExtDelete

SpecRace == InitCacheSpec /\ [][NextRace]_vars

\* ------------------------------------------------------------------ claims

\* C1: every snapshot handed out by MetricsCollector.latest is a pair the
\* sampler wrote in one update (or the initial pair): the copy a reader
\* holds is exactly the pair that was last published when it was taken,
\* never the timestamp of one update with the counter of another.
C1_SnapshotAtomic == snap = snap_pub

\* A reader took a snapshot after an update, and the sampler has updated
\* again since.
C1_Witness ==
    /\ snap.conversation_length > 0
    /\ latest.timestamp > snap.timestamp
    /\ AllSuspended

\* C2 (as claimed): a tick whose document read raised is skipped and the
\* loop stays alive, parked at its sleep until the next interval.
C2_ReadFailureSkipsTick == failure = "read" => updater = "sleep"

\* C3 (as claimed): a tick on which one of the two writes failed leaves the
\* loop alive, and a failed overwrite of out_path does not keep that tick
\* from appending to the log.
C3_WriteFailureIsolated ==
    /\ failure \in {"out", "log"} => updater # "crashed"
    /\ failure = "out" => log_tick = ticks

\* C4 (as claimed): between ticks, after N ticks have run, the log holds
\* exactly N entries, each an artifact followed by the 80-dash separator,
\* and out_path holds the artifact of the Nth tick.
C4_PublishAppend ==
    updater \in {"sleep", "crashed", "cancelled"} =>
        /\ Len(log_file) = ticks
        /\ \A k \in 1..Len(log_file) : log_file[k].dashes = SEP_LEN
        /\ ticks > 0 => (out_tick = ticks /\ out_file = <<log_file[ticks].text>>)

IsPrefix(s, t) == Len(s) <= Len(t) /\ SubSeq(t, 1, Len(s)) = s

\* C5: the log is append-only.  Every step leaves the old log a prefix of
\* the new one; the log changes only in the append step of a tick, by one
\* entry; and the append of a successful tick adds exactly that tick's
\* artifact with its separator.
C5_LogAppendOnly ==
    [][/\ IsPrefix(log_file, log_file')
       /\ log_file' # log_file =>
            (updater = "wrote" /\ Len(log_file') = Len(log_file) + 1)
       /\ (updater = "wrote" /\ updater' = "sleep") =>
            log_file' = Append(log_file, LogEntry(prompt_txt))]_vars

\* Two ticks were logged and a third failed in its append.
C5_Witness == Len(log_file) >= 2 /\ failure = "log"

CallHit == call.exists /\ call.mtime = call.cached_mtime

\* The last call raised in stat(), before it knew the file's mtime.
StatFailed == ret.kind = "raised" /\ n_reads = 0

\* C6 (as claimed): a call that finds the file with the cached mtime returns
\* the cached text and reads nothing; a call that finds another mtime reads
\* the contents exactly once and leaves that mtime cached, so that later
\* calls with that mtime read nothing.
C6_CacheAsClaimed ==
    (call.made /\ call.exists /\ ~StatFailed) =>
        /\ CallHit => (ret = Returned(call.cached_base) /\ n_reads = 0)
        /\ ~CallHit => (n_reads = 1 /\ cached_mtime = call.mtime)

\* C6 (amended): the claim holds of every call that returns; a call that
\* raises makes at most one read attempt (none on a hit) and leaves the
\* cache as it found it, so the next call with that mtime reads again.
C6_CacheCorrect ==
    (call.made /\ call.exists) =>
        /\ (ret.kind = "returned" /\ CallHit) =>
              /\ ret.text = call.cached_base
              /\ n_reads = 0
              /\ cached_base = call.cached_base
              /\ cached_mtime = call.cached_mtime
        /\ (ret.kind = "returned" /\ ~CallHit) =>
              /\ n_reads = 1
              /\ ret.text = call.text
              /\ cached_base = call.text
              /\ cached_mtime = call.mtime
        /\ ret.kind = "raised" =>
              /\ CallHit => n_reads = 0
              /\ n_reads <= 1
              /\ cached_base = call.cached_base
              /\ cached_mtime = call.cached_mtime

\* A rewrite with identical bytes and a new mtime was re-read, once.
C6_Witness ==
    /\ call.made /\ call.exists
    /\ call.cached_mtime # NoneMtime
    /\ call.mtime # call.cached_mtime
    /\ call.text = call.cached_base
    /\ ret = Returned(call.text)
    /\ n_reads = 1

\* C7: a call that finds the document missing returns the empty text and
\* does not raise, whatever the cache holds.
C7_MissingIsEmpty == (call.made /\ ~call.exists) => ret = Returned("")

\* The document was cached, then deleted, and the next call returned "".
C7_Witness ==
    /\ call.made /\ ~call.exists
    /\ call.cached_base # ""
    /\ ret = Returned("")

\* C8 (as claimed): a call that finds the document returns its current
\* contents.
C8_ReturnsCurrentText ==
    (call.made /\ call.exists /\ ret.kind = "returned") => ret.text = call.text

\* C8 (amended): a call that finds the document and returns, returns its
\* current contents unless, since the cache was last filled, the file was
\* rewritten or re-created with the cached mtime and another text; then the
\* cached text is returned.
C8_CurrentUnlessMtimeReused ==
    (call.made /\ call.exists /\ ret.kind = "returned") =>
        /\ ~call.reused => ret.text = call.text
        /\ ret.text # call.text => (CallHit /\ ret.text = call.cached_base)

\* The document was cached, changed (text and mtime), and the next call
\* returned the new text.
C8_Witness ==
    /\ call.made /\ call.exists /\ ~call.reused
    /\ call.cached_mtime # NoneMtime
    /\ call.cached_base # call.text
    /\ ret = Returned(call.text)

\* C9: cancellation reaches the updater only at its sleep: whenever the
\* task has ended by cancellation, the tick that last overwrote out_path is
\* the tick that last appended to the log (no tick is left half-done).
C9_CancelBetweenTicks == updater = "cancelled" => out_tick = log_tick

\* The loop was cancelled after publishing at least twice.
C9_Witness == updater = "cancelled" /\ ticks >= 2 /\ out_tick = ticks

\* C10: stop() never surfaces the cancellation; it returns only once the
\* task it cancelled is finished; with no sampler task alive the live
\* snapshot is the pair of the last completed update (no update was cut
\* short) and it does not change.
C10_StopClean ==
    /\ [](stopper # "raised")
    /\ []((stopper = "returned" /\ stop_target # 0) => Done(tasks[stop_target].pc))
    /\ [](NoLiveTask => (latest = last_pub /\ ~lock))
    /\ [][NoLiveTask => latest' = latest]_vars

\* stop() has returned after cancelling a sampler that had updated.
C10_Witness ==
    /\ stopper = "returned"
    /\ stop_target # 0
    /\ NoLiveTask
    /\ latest.conversation_length > 0

\* C11: get_prompt_elements depends on nothing but the config and the
\* counter of the snapshot it is given: a counter above 50 selects the long
\* fragment, any other (50 included) the short one, and the result is the
\* list of that one fragment, or the empty list when the fragment is "".
Selected(cfg, c) ==
    IF c <= LongThreshold THEN cfg.short_convo_addition
                          ELSE cfg.long_convo_addition

C11_Selector ==
    called.select =>
        LET frag == Selected(arg_cfg, arg_metrics.conversation_length)
        IN  /\ Len(elems) <= 1
            /\ (elems = <<>>) <=> (frag = "")
            /\ elems # <<>> => elems[1] = frag
            /\ arg_metrics.conversation_length = LongThreshold
                 => \A k \in 1..Len(elems) :
                        elems[k] = arg_cfg.short_convo_addition
            /\ arg_metrics.conversation_length = LongThreshold + 1
                 => \A k \in 1..Len(elems) :
                        elems[k] = arg_cfg.long_convo_addition

C11_Witness ==
    /\ called.select
    /\ arg_metrics.conversation_length = LongThreshold
    /\ arg_cfg.long_convo_addition = "long"
    /\ arg_cfg.short_convo_addition = "short"
    /\ elems = <<"short">>

FileAsAtCall ==
    /\ base_exists = call.exists
    /\ base_text = call.text
    /\ base_mtime = call.mtime

C15_FailureKeepsEntry ==
    /\ [](ret.kind = "raised" =>
            /\ cached_base = call.cached_base
            /\ cached_mtime = call.cached_mtime)
    /\ [][(/\ ret.kind = "raised"
           /\ n_reads = 1
           /\ FileAsAtCall
           /\ fsVars' = fsVars) => (n_reads' = 1 \/ ret'.kind = "raised")]_vars

C15_Witness ==
    /\ ret.kind = "raised"
    /\ n_reads = 1
    /\ call.cached_mtime # NoneMtime
    /\ call.cached_base # call.text
    /\ cached_base = call.cached_base

TickComposed == updater \in {"built", "opened", "wrote", "sleep"}

TickFoundAbsent == call.made /\ ~call.exists /\ TickComposed

TickFoundBack == prev_missing /\ call.made /\ call.exists /\ TickComposed

AbsentTickPublishes ==
    TickFoundAbsent =>
        /\ prompt_txt.base = ""
        /\ updater = "sleep" =>
              /\ out_file = <<prompt_txt>>
              /\ out_tick = ticks
              /\ log_tick = ticks
              /\ log_file[Len(log_file)] = LogEntry(prompt_txt)

C14_OutBeforeLog ==
    /\ [](log_tick <= out_tick /\ out_tick <= log_tick + 1)
    /\ [](updater = "wrote" =>
            (out_state = "complete" /\ out_file = <<prompt_txt>>
               /\ out_tick = ticks /\ log_tick = ticks - 1))
    /\ [][log_file' # log_file =>
            /\ out_state = "complete"
            /\ log_file'[Len(log_file')].text = out_file[1]
            /\ UNCHANGED out_file]_vars

C14_Witness ==
    /\ updater = "wrote"
    /\ ticks >= 2
    /\ log_tick = out_tick - 1
    /\ log_file[Len(log_file)] = LogEntry(log_file[1].text)
    /\ out_file[1] # log_file[Len(log_file)].text

\* C18: whenever another process looks at out_path it finds the file as it
\* was before the first tick or holding one whole artifact.
C18_NeverPartial == out_state \in {"absent", "complete"}

Floor(x, d) == CHOOSE q \in 0..MaxClock : q * d <= x /\ x < (q + 1) * d

DerivedFrom(m) ==
    m.conversation_length = Floor(m.timestamp - start, TicksPerSecond)

Alive(i) == tasks[i].pc # "done"

C20_OneSampler ==
    /\ [](\A i, j \in 1..Len(tasks) : (Alive(i) /\ Alive(j)) => i = j)
    /\ [][Len(tasks') > Len(tasks) =>
            /\ \A i \in 1..Len(tasks) : ~Alive(i)
            /\ tasks' = Append(tasks, [pc |-> "new", wake |-> 0])]_vars
    /\ []((stopper = "returned" /\ Len(tasks) < MaxTasks
             /\ \A i \in 1..Len(tasks) : ~Alive(i))
            => ENABLED (Start /\ Len(tasks') = Len(tasks) + 1))

C20_Witness ==
    /\ stopper = "returned"
    /\ stop_target = 1
    /\ Len(tasks) = 2
    /\ ~Alive(1)
    /\ tasks[2].pc = "ts_written"

\* C21: started as _main starts them, the sampler makes no update before
\* the updater's first tick is over (published, or failed), and whatever
\* the first tick writes to out_path and to the log carries the initial
\* snapshot: counter 0 and the time the collector was created.
InitialSnapshot == Snapshot(start, 0)

SamplerHasUpdated ==
    \/ latest # InitialSnapshot
    \/ \E i \in 1..Len(tasks) : tasks[i].pc \in {"locked", "ts_written"}

CarriesInitial(txt) ==
    /\ txt.length = 0
    /\ txt.timestamp = start \div TicksPerSecond

C21_FirstPublicationFirst ==
    /\ SamplerHasUpdated => (log_tick >= 1 \/ updater = "crashed")
    /\ (ticks = 1 /\ updater \in {"built", "opened", "wrote"})
          => CarriesInitial(prompt_txt)
    /\ (out_tick = 1 /\ out_file # <<>>) => CarriesInitial(out_file[1])
    /\ log_file # <<>> => CarriesInitial(log_file[1].text)

C21_Witness ==
    /\ latest # InitialSnapshot
    /\ ticks >= 2
    /\ log_tick = ticks
    /\ CarriesInitial(log_file[1].text)
    /\ out_file[1].length >= SAMPLE_PERIOD

\* C22: whatever another process does to the document between exists(),
\* stat() and read_text(), the call does not raise, and the entry it
\* leaves holds a text together with the mtime the file had when that
\* text was read.
C22_ReadSurvivesRace ==
    /\ rd_pc # "raised"
    /\ ~rd_torn

====
